---- MODULE Spec2Model ----
(***************************************************************************)
(* A model of wimby/parsovacka (src/main.py): the receipt export parser.   *)
(*                                                                         *)
(* A Python str is a sequence of tokens; a token is a TLA+ string that     *)
(* stands for one character ("1", ".", "-", ";") or for a run of           *)
(* characters that no operation of the program looks inside ("RCP42").     *)
(* The empty str is << >>.  A record (one line of the csv reader) is a     *)
(* sequence of str whose first element is the tag, so TLA+ index k is the  *)
(* k-th field of the record counted with the tag as field 1, and the       *)
(* Python expression line[1:][j] is field j + 2 of the record.             *)
(***************************************************************************)
EXTENDS Integers, Sequences, FiniteSets, TLC

VARIABLES files, fidx, rpos, bill_lines, emitted, doc, csv1, csv2,
          processed, failed, log, pc

vars == <<files, fidx, rpos, bill_lines, emitted, doc, csv1, csv2,
          processed, failed, log, pc>>

----------------------------------------------------------------------------
(* Bounds of the model                                                     *)

MaxFiles == 3
MaxDocs == 3
MaxRecords == 4
MaxItems == 1
MaxAdj == 2

----------------------------------------------------------------------------
(* Python values                                                           *)

PyNone == [t |-> "None", v |-> << >>]
PyStr(s) == [t |-> "str", v |-> s]

\* '{}'.format(x) for a str or None
Fmt(x) == IF x.t = "None" THEN <<"None">> ELSE x.v

RECURSIVE Replace(_, _, _)
\* s.replace(old, new) for one-character old and new
Replace(s, old, new) ==
  IF s = << >> THEN << >>
  ELSE <<IF Head(s) = old THEN new ELSE Head(s)>> \o Replace(Tail(s), old, new)

Locale(s) == Replace(s, ".", ",")

Digits == {"0", "1", "2", "3", "4", "5", "6", "7", "8", "9"}

DigitVal(d) ==
  CASE d = "0" -> 0 [] d = "1" -> 1 [] d = "2" -> 2 [] d = "3" -> 3
    [] d = "4" -> 4 [] d = "5" -> 5 [] d = "6" -> 6 [] d = "7" -> 7
    [] d = "8" -> 8 [] d = "9" -> 9

DigitTok(n) == <<"0", "1", "2", "3", "4", "5", "6", "7", "8", "9">>[n + 1]

\* the position of the first "." of s, or Len(s) + 1
DotPos(s) ==
  IF \E i \in 1..Len(s) : s[i] = "."
  THEN CHOOSE i \in 1..Len(s) : s[i] = "." /\ \A j \in 1..(i - 1) : s[j] # "."
  ELSE Len(s) + 1

Unsigned(s) == IF s # << >> /\ Head(s) \in {"-", "+"} THEN Tail(s) ELSE s

\* whether float(s) returns: an optional sign, digits with at most one ".",
\* at least one digit (the model's numerals carry no exponent or blanks)
IsFloat(s) ==
  LET u == Unsigned(s)
      d == DotPos(u)
  IN /\ \A i \in 1..Len(u) : u[i] \in Digits \/ i = d
     /\ \E i \in 1..Len(u) : u[i] \in Digits

RECURSIVE DigitsVal(_)
DigitsVal(s) == IF s = << >> THEN 0
                ELSE DigitsVal(SubSeq(s, 1, Len(s) - 1)) * 10 + DigitVal(s[Len(s)])

\* float(s) in hundredths, for a numeral of at most two fractional digits
FloatCents(s) ==
  LET u == Unsigned(s)
      d == DotPos(u)
      ip == SubSeq(u, 1, d - 1)
      fp == SubSeq(u, d + 1, Len(u))
      f2 == IF Len(fp) = 0 THEN <<"0", "0">>
            ELSE IF Len(fp) = 1 THEN fp \o <<"0">> ELSE SubSeq(fp, 1, 2)
      mag == DigitsVal(ip) * 100 + DigitsVal(f2)
  IN IF s # << >> /\ Head(s) = "-" THEN 0 - mag ELSE mag

RECURSIVE NatStr(_)
NatStr(n) == IF n < 10 THEN <<DigitTok(n)>>
             ELSE NatStr(n \div 10) \o <<DigitTok(n % 10)>>

\* '{:.2f}'.format(c / 100)
Format2f(c) ==
  LET a == IF c < 0 THEN 0 - c ELSE c
  IN (IF c < 0 THEN <<"-">> ELSE << >>) \o NatStr(a \div 100)
       \o <<".", DigitTok((a % 100) \div 10), DigitTok(a % 10)>>

RECURSIVE Join(_, _)
\* sep.join(parts)
Join(parts, sep) ==
  IF parts = << >> THEN << >>
  ELSE IF Len(parts) = 1 THEN parts[1]
  ELSE parts[1] \o sep \o Join(Tail(parts), sep)

\* l[j] of Python, for a zero-based j within range
At(l, j) == l[j + 1]

Tag(name) == <<name>>

----------------------------------------------------------------------------
(* werkzeug's MultiDict over [(line[0], line[1:]) for line in lines]       *)

\* key in lines
Has(lines, key) == \E i \in 1..Len(lines) : Head(lines[i]) = key

\* lines[key]: the value of the first pair with that key
First(lines, key) ==
  Tail(lines[CHOOSE i \in 1..Len(lines) :
               /\ Head(lines[i]) = key
               /\ \A j \in 1..(i - 1) : Head(lines[j]) # key])

RECURSIVE GetList(_, _)
\* lines.getlist(key): the values of all pairs with that key, in order
GetList(lines, key) ==
  IF lines = << >> THEN << >>
  ELSE (IF Head(Head(lines)) = key THEN <<Tail(Head(lines))>> ELSE << >>)
         \o GetList(Tail(lines), key)

----------------------------------------------------------------------------
(* _process_items                                                          *)

\* sales[order] of the dict {adj[0]: adj[3] for adj in adjustments}: a later
\* pair with the same key replaces an earlier one
SalesHas(adjustments, order) ==
  \E i \in 1..Len(adjustments) : At(adjustments[i], 0) = order

\* SalesGet keeping the first pair of a key instead of the last
SalesGetFirst(adjustments, order) ==
  At(adjustments[CHOOSE i \in 1..Len(adjustments) :
                   /\ At(adjustments[i], 0) = order
                   /\ \A j \in 1..(i - 1) : At(adjustments[j], 0) # order], 3)

SalesGet(adjustments, order) ==
  At(adjustments[CHOOSE i \in 1..Len(adjustments) :
                   /\ At(adjustments[i], 0) = order
                   /\ \A j \in (i + 1)..Len(adjustments) :
                        At(adjustments[j], 0) # order], 3)

\* ItemAmount with the two conditions of line 76 joined by and
ItemAmountAnd(item, refund) ==
  LET storno == At(item, 13)
      amount == Locale(At(item, 6))
  IN IF storno = <<"V">> /\ refund THEN <<"-">> \o amount ELSE amount

ItemAmount(item, refund) ==
  LET storno == At(item, 13)
      amount == Locale(At(item, 6))
  IN IF storno = <<"V">> \/ refund THEN <<"-">> \o amount ELSE amount

ItemSale(item, adjustments) ==
  LET order == At(item, 1)
  IN IF SalesHas(adjustments, order)
     THEN <<"-">> \o Locale(SalesGet(adjustments, order))
     ELSE <<"0">>

ProcessItem(item, adjustments, refund) ==
  [t |-> "dict",
   v |-> [order |-> At(item, 1),
          item_id |-> At(item, 2),
          title |-> At(item, 3),
          price |-> Locale(At(item, 4)),
          price_total |-> Locale(At(item, 5)),
          amount |-> ItemAmount(item, refund),
          unit |-> At(item, 7),
          type |-> At(item, 8),
          sale |-> ItemSale(item, adjustments)]]

ProcessItems(items, adjustments, refund) ==
  [t |-> "list",
   v |-> [i \in 1..Len(items) |-> ProcessItem(items[i], adjustments, refund)]]

----------------------------------------------------------------------------
(* process_doc                                                             *)

\* the first exception the adjustment sum raises, "" when it raises none
RECURSIVE AdjustmentError(_)
AdjustmentError(adjs) ==
  IF adjs = << >> THEN ""
  ELSE IF Len(Head(adjs)) < 4 THEN "IndexError"
  ELSE IF ~IsFloat(At(Head(adjs), 3)) THEN "ValueError"
  ELSE AdjustmentError(Tail(adjs))

RECURSIVE AdjustmentCents(_)
AdjustmentCents(adjs) ==
  IF adjs = << >> THEN 0
  ELSE FloatCents(At(Head(adjs), 3)) + AdjustmentCents(Tail(adjs))

\* DocError with line 48 looking RCPID up without its guard
DocErrorUnguarded(lines) ==
  IF ~Has(lines, Tag("DOCHDR")) THEN "KeyError"
  ELSE IF Len(First(lines, Tag("DOCHDR"))) < 2 THEN "IndexError"
  ELSE IF ~Has(lines, Tag("RCPID")) THEN "KeyError"
  ELSE IF Len(First(lines, Tag("RCPID"))) < 2 THEN "IndexError"
  ELSE IF AdjustmentError(GetList(lines, Tag("ADJI"))) # ""
       THEN AdjustmentError(GetList(lines, Tag("ADJI")))
  ELSE IF \E i \in 1..Len(GetList(lines, Tag("SI"))) :
            Len(GetList(lines, Tag("SI"))[i]) < 14
       THEN "IndexError"
  ELSE ""

\* the exception process_doc raises, in the evaluation order of the dict
\* display and of _process_items; "" when it returns
DocError(lines) ==
  IF ~Has(lines, Tag("DOCHDR")) THEN "KeyError"
  ELSE IF Len(First(lines, Tag("DOCHDR"))) < 2 THEN "IndexError"
  ELSE IF Has(lines, Tag("RCPID")) /\ Len(First(lines, Tag("RCPID"))) < 2
       THEN "IndexError"
  ELSE IF Has(lines, Tag("TTL")) /\ Len(First(lines, Tag("TTL"))) < 1
       THEN "IndexError"
  ELSE IF Has(lines, Tag("TAXI")) /\ Len(First(lines, Tag("TAXI"))) < 5
       THEN "IndexError"
  ELSE IF AdjustmentError(GetList(lines, Tag("ADJI"))) # ""
       THEN AdjustmentError(GetList(lines, Tag("ADJI")))
  ELSE IF Has(lines, Tag("TNDR")) /\ Len(First(lines, Tag("TNDR"))) < 1
       THEN "IndexError"
  ELSE IF Has(lines, Tag("RCPDT")) /\ Len(First(lines, Tag("RCPDT"))) < 1
       THEN "IndexError"
  ELSE IF Has(lines, Tag("ECRDESCR")) /\ Len(First(lines, Tag("ECRDESCR"))) < 2
       THEN "IndexError"
  ELSE IF \E i \in 1..Len(GetList(lines, Tag("SI"))) :
            Len(GetList(lines, Tag("SI"))[i]) < 14
       THEN "IndexError"
  ELSE ""

\* lines[key][j] if key in lines else None
Opt(lines, key, j) ==
  IF Has(lines, key) THEN PyStr(At(First(lines, key), j)) ELSE PyNone

OptLocale(lines, key, j) ==
  IF Has(lines, key) THEN PyStr(Locale(At(First(lines, key), j))) ELSE PyNone

\* the bill process_doc returns when it raises nothing; line 59 ends in a
\* comma, so bill['items'] is a tuple of one element, the list of items
Bill(lines) ==
  LET type == At(First(lines, Tag("DOCHDR")), 1)
  IN [t |-> "bill",
      type |-> PyStr(type),
      id |-> Opt(lines, Tag("RCPID"), 1),
      salesman |-> Opt(lines, Tag("RCPID"), 0),
      total_price |-> OptLocale(lines, Tag("TTL"), 0),
      price_without_vat |-> OptLocale(lines, Tag("TAXI"), 3),
      vat_amount |-> OptLocale(lines, Tag("TAXI"), 4),
      adjustment |->
        PyStr(Locale(Format2f(AdjustmentCents(GetList(lines, Tag("ADJI")))))),
      payment_type |-> Opt(lines, Tag("TNDR"), 0),
      date |-> Opt(lines, Tag("RCPDT"), 0),
      cash_id |-> Opt(lines, Tag("ECRDESCR"), 0),
      vat_id |-> Opt(lines, Tag("ECRDESCR"), 1),
      items |-> [t |-> "tuple",
                 v |-> <<ProcessItems(GetList(lines, Tag("SI")),
                                      GetList(lines, Tag("ADJI")),
                                      type = <<"REFUND">>)>>]]

ProcessDoc(lines) ==
  IF DocError(lines) # "" THEN [err |-> DocError(lines)]
  ELSE [err |-> "", bill |-> Bill(lines)]

----------------------------------------------------------------------------
(* append_doc_to_csv                                                       *)

SummaryRow(d) ==
  Join(<<Fmt(d.id), Fmt(d.date), Fmt(d.salesman), Fmt(d.price_without_vat),
         Fmt(d.vat_amount), Fmt(d.adjustment), Fmt(d.payment_type),
         Fmt(d.cash_id), Fmt(d.total_price)>>, <<";">>) \o <<"\n">>

DetailRow(d, item) ==
  Join(<<Fmt(d.id), item.v.item_id, item.v.amount, item.v.price, item.v.sale>>,
       <<";">>) \o <<"\n">>

RECURSIVE WriteItems(_, _)
\* the loop of lines 95-96 over the elements of doc['items']: **item needs
\* a mapping, and raises TypeError for anything else
WriteItems(d, elems) ==
  IF elems = << >> THEN [rows |-> << >>, err |-> ""]
  ELSE IF Head(elems).t # "dict" THEN [rows |-> << >>, err |-> "TypeError"]
  ELSE LET rest == WriteItems(d, Tail(elems))
       IN [rows |-> <<DetailRow(d, Head(elems))>> \o rest.rows, err |-> rest.err]

Info(msg) == [level |-> "INFO", msg |-> msg]
Exc(kind) == [level |-> "ERROR", msg |-> <<kind>>]

\* AppendDocToCsv with line 89 testing "not doc['id']": None is skipped too
AppendDocToCsvFalsy(d) ==
  IF d.type # PyStr(<<"SALES">>) /\ d.type # PyStr(<<"REFUND">>)
  THEN [rows1 |-> << >>, rows2 |-> << >>,
        logs |-> <<Info(<<"skipping ">> \o Fmt(d.type))>>, err |-> ""]
  ELSE IF d.id = PyStr(<< >>) \/ d.id = PyNone
  THEN [rows1 |-> << >>, rows2 |-> << >>,
        logs |-> <<Info(<<"RCPID is empty">>)>>, err |-> ""]
  ELSE LET w == WriteItems(d, d.items.v)
       IN [rows1 |-> <<SummaryRow(d)>>, rows2 |-> w.rows,
           logs |-> << >>, err |-> w.err]

\* what append_doc_to_csv(csv1, csv2, d) writes, logs and raises; line 89
\* compares with "is": the interpreter keeps one empty str, which is what the
\* csv reader hands out for an empty field, and None is another object
AppendDocToCsv(d) ==
  IF d.type # PyStr(<<"SALES">>) /\ d.type # PyStr(<<"REFUND">>)
  THEN [rows1 |-> << >>, rows2 |-> << >>,
        logs |-> <<Info(<<"skipping ">> \o Fmt(d.type))>>, err |-> ""]
  ELSE IF d.id = PyStr(<< >>)
  THEN [rows1 |-> << >>, rows2 |-> << >>,
        logs |-> <<Info(<<"RCPID is empty">>)>>, err |-> ""]
  ELSE LET w == WriteItems(d, d.items.v)
       IN [rows1 |-> <<SummaryRow(d)>>, rows2 |-> w.rows,
           logs |-> << >>, err |-> w.err]

----------------------------------------------------------------------------
(* main: the batch loop of lines 151-170, with parse_csv as its generator  *)
(*                                                                         *)
(* files      the files read_folder yields, each the records of its reader *)
(* fidx       the file of the current iteration (0 before the first)       *)
(* rpos       records the reader of parse_csv has handed out               *)
(* bill_lines the buffer of parse_csv                                      *)
(* emitted    the groups parse_csv has yielded for the current file        *)
(* doc        the local doc of main (unbound before the first assignment)  *)
(* csv1, csv2 the rows written to the summary and the detail output        *)
(* processed, failed   the counters of main                                *)
(* log        the records handed to the logger                             *)
(* pc         "next": at the head of the loop over files; "read": inside   *)
(*            the loop over parse_csv; "done": after the two prints;       *)
(*            "interrupted": KeyboardInterrupt has left main               *)

NoDoc == [t |-> "unbound"]

Start(fs) ==
  /\ files = fs
  /\ fidx = 0
  /\ rpos = 0
  /\ bill_lines = << >>
  /\ emitted = << >>
  /\ doc = NoDoc
  /\ csv1 = << >>
  /\ csv2 = << >>
  /\ processed = 0
  /\ failed = << >>
  /\ log = << >>
  /\ pc = "next"

NextLine == files[fidx][rpos + 1]

\* line 156-157: read_folder yields the next file
NextFile ==
  /\ pc = "next"
  /\ fidx < Len(files)
  /\ fidx' = fidx + 1
  /\ rpos' = 0
  /\ bill_lines' = << >>
  /\ emitted' = << >>
  /\ log' = Append(log, Info(<<"started processing file: ", ToString(fidx + 1)>>))
  /\ pc' = "read"
  /\ UNCHANGED <<files, doc, csv1, csv2, processed, failed>>

\* lines 31-34: a record that is not the sentinel goes to the buffer
ReadLine ==
  /\ pc = "read"
  /\ rpos < Len(files[fidx])
  /\ Head(NextLine) # Tag("DOCTR")
  /\ bill_lines' = Append(bill_lines, NextLine)
  /\ rpos' = rpos + 1
  /\ UNCHANGED <<files, fidx, emitted, doc, csv1, csv2, processed, failed, log, pc>>

\* what the body of the loop (lines 160-167) does with a yielded group
Body(group) ==
  LET r == ProcessDoc(group)
  IN IF r.err # ""
     THEN [doc |-> doc, rows1 |-> << >>, rows2 |-> << >>,
           logs |-> <<Exc(r.err)>>, err |-> r.err]
     ELSE LET a == AppendDocToCsv(r.bill)
          IN [doc |-> r.bill, rows1 |-> a.rows1, rows2 |-> a.rows2,
              logs |-> a.logs \o (IF a.err # "" THEN <<Exc(a.err)>> ELSE << >>),
              err |-> a.err]

\* YieldDoc with the try of line 158 inside the loop over parse_csv: after
\* an exception the next group of the same file is processed
YieldDocContinue ==
  /\ pc = "read"
  /\ rpos < Len(files[fidx])
  /\ Head(NextLine) = Tag("DOCTR")
  /\ LET group == Append(bill_lines, NextLine)
         b == Body(group)
     IN /\ emitted' = Append(emitted, group)
        /\ rpos' = rpos + 1
        /\ doc' = b.doc
        /\ csv1' = csv1 \o b.rows1
        /\ csv2' = csv2 \o b.rows2
        /\ log' = log \o b.logs
        /\ failed' = IF b.err # "" THEN Append(failed, fidx) ELSE failed
        /\ processed' = IF b.err # "" THEN processed ELSE processed + 1
        /\ bill_lines' = << >>
        /\ pc' = "read"
  /\ UNCHANGED <<files, fidx>>

\* YieldDoc with line 162 counting only the documents that wrote a row
YieldDocCountWritten ==
  /\ pc = "read"
  /\ rpos < Len(files[fidx])
  /\ Head(NextLine) = Tag("DOCTR")
  /\ LET group == Append(bill_lines, NextLine)
         b == Body(group)
     IN /\ emitted' = Append(emitted, group)
        /\ rpos' = rpos + 1
        /\ doc' = b.doc
        /\ csv1' = csv1 \o b.rows1
        /\ csv2' = csv2 \o b.rows2
        /\ log' = log \o b.logs
        /\ IF b.err # ""
           THEN /\ failed' = Append(failed, fidx)
                /\ processed' = processed
                /\ bill_lines' = group
                /\ pc' = "next"
           ELSE /\ failed' = failed
                /\ processed' = IF b.rows1 # << >> THEN processed + 1 ELSE processed
                /\ bill_lines' = << >>
                /\ pc' = "read"
  /\ UNCHANGED <<files, fidx>>

\* lines 31-36 and 159-167: the sentinel completes a group, parse_csv yields
\* it and the body of the loop runs; an exception ends the file (the
\* generator, suspended at its yield, is dropped with its buffer)
YieldDoc ==
  /\ pc = "read"
  /\ rpos < Len(files[fidx])
  /\ Head(NextLine) = Tag("DOCTR")
  /\ LET group == Append(bill_lines, NextLine)
         b == Body(group)
     IN /\ emitted' = Append(emitted, group)
        /\ rpos' = rpos + 1
        /\ doc' = b.doc
        /\ csv1' = csv1 \o b.rows1
        /\ csv2' = csv2 \o b.rows2
        /\ log' = log \o b.logs
        /\ IF b.err # ""
           THEN /\ failed' = Append(failed, fidx)
                /\ processed' = processed
                /\ bill_lines' = group
                /\ pc' = "next"
           ELSE /\ failed' = failed
                /\ processed' = processed + 1
                /\ bill_lines' = << >>
                /\ pc' = "read"
  /\ UNCHANGED <<files, fidx>>

\* line 31: the reader is exhausted, parse_csv returns and drops its buffer
EndOfFile ==
  /\ pc = "read"
  /\ rpos = Len(files[fidx])
  /\ pc' = "next"
  /\ UNCHANGED <<files, fidx, rpos, bill_lines, emitted, doc, csv1, csv2,
                 processed, failed, log>>

\* lines 169-170: read_folder is exhausted, the totals are printed
Finish ==
  /\ pc = "next"
  /\ fidx = Len(files)
  /\ pc' = "done"
  /\ UNCHANGED <<files, fidx, rpos, bill_lines, emitted, doc, csv1, csv2,
                 processed, failed, log>>

\* lines 163-164: KeyboardInterrupt between two steps of the loop is raised
\* again and leaves main; the with blocks close the two outputs
Interrupt ==
  /\ pc \in {"next", "read"}
  /\ pc' = "interrupted"
  /\ UNCHANGED <<files, fidx, rpos, bill_lines, emitted, doc, csv1, csv2,
                 processed, failed, log>>

\* lines 93-96, 163-164: KeyboardInterrupt inside append_doc_to_csv, after
\* the summary row and k of the detail rows are written
InterruptInAppend ==
  /\ pc = "read"
  /\ rpos < Len(files[fidx])
  /\ Head(NextLine) = Tag("DOCTR")
  /\ LET group == Append(bill_lines, NextLine)
         r == ProcessDoc(group)
     IN /\ r.err = ""
        /\ AppendDocToCsv(r.bill).rows1 # << >>
        /\ \E k \in 0..Len(AppendDocToCsv(r.bill).rows2) :
             csv2' = csv2 \o SubSeq(AppendDocToCsv(r.bill).rows2, 1, k)
        /\ csv1' = csv1 \o AppendDocToCsv(r.bill).rows1
        /\ doc' = r.bill
        /\ emitted' = Append(emitted, group)
        /\ bill_lines' = group
  /\ rpos' = rpos + 1
  /\ pc' = "interrupted"
  /\ UNCHANGED <<files, fidx, processed, failed, log>>

Next ==
  \/ NextFile
  \/ ReadLine
  \/ YieldDoc
  \/ EndOfFile
  \/ Finish
  \/ Interrupt
  \/ InterruptInAppend

----------------------------------------------------------------------------
(* Inputs: the records of the export files                                 *)

Rec(tag, fields) == <<Tag(tag)>> \o fields
Str(x) == <<x>>

DOCTR == Rec("DOCTR", << >>)
\* the type is line[1:][1], the third field of the record
DocHdr(type) == Rec("DOCHDR", <<Str("7"), Str(type)>>)
\* a DOCHDR record laid out as the spec's example: the type right after the tag
DocHdrShort(type) == Rec("DOCHDR", <<Str(type)>>)
RcpId(salesman, id) == Rec("RCPID", <<salesman, id>>)
Ttl == Rec("TTL", << <<"1", "2", "3", ".", "4", "5">> >>)
Taxi == Rec("TAXI", <<Str("A"), Str("21"), Str("x"),
                     <<"1", "0", "2", ".", "0", "2">>, <<"2", "1", ".", "4", "3">> >>)
Tndr == Rec("TNDR", <<Str("CASH")>>)
RcpDt == Rec("RCPDT", <<Str("2017-03-01")>>)
EcrDescr == Rec("ECRDESCR", <<Str("ECR1"), Str("CZ123")>>)

\* an SI record of 15 fields: f2 the field right after the tag, order, item
\* id, title, price, total, quantity, unit, type, three unused fields, f14
\* the 14th field of the record and f15 its 15th
Si(f2, order, item_id, qty, f14, f15) ==
  Rec("SI", <<f2, order, item_id, Str("Widget"), <<"1", "0", ".", "0", "0">>,
              <<"1", "0", ".", "0", "0">>, qty, Str("pcs"), Str("A"),
              << >>, << >>, << >>, f14, f15>>)

\* an ADJI record of 5 fields: the order number, an unused field, f4 the 4th
\* field of the record and f5 its 5th
Adji(order, f4, f5) == Rec("ADJI", <<order, Str("x"), f4, f5>>)

SeqsUpTo(S, n) == UNION {[1..k -> S] : k \in 0..n}

RECURSIVE Concat(_)
Concat(ss) == IF ss = << >> THEN << >> ELSE Head(ss) \o Concat(Tail(ss))

N1 == <<"1">>
N0 == <<"0">>
NMinus1 == <<"-", "1">>
N2_5 == <<"2", ".", "5">>
N2_50 == <<"2", ".", "5", "0">>
N1_00 == <<"1", ".", "0", "0">>

\* the record groups of the batch runs: a document that is skipped, a sale
\* with one line item and one discount, a group without DOCHDR
GroupVoid == <<DocHdr("VOID"), DOCTR>>
GroupSale == <<DocHdr("SALES"), RcpId(Str("SALESMAN7"), Str("RCP42")),
               Si(Str("1"), Str("1"), Str("ITEM9"), N1, Str("N"), Str("N")),
               Adji(Str("1"), N2_50, N2_50), DOCTR>>
GroupNoHdr == <<RcpId(Str("SALESMAN7"), Str("RCP43")), DOCTR>>
GroupPool == {GroupVoid, GroupSale, GroupNoHdr}

\* the ways to cut n documents into at most MaxFiles files: the number of
\* documents before each file, then n
Cuts(n) ==
  {c \in SeqsUpTo(0..n, MaxFiles + 1) :
     /\ Len(c) >= 1
     /\ c[1] = 0
     /\ c[Len(c)] = n
     /\ \A i \in 1..(Len(c) - 1) : c[i] <= c[i + 1]}

Batch(gs, c) == [i \in 1..(Len(c) - 1) |-> Concat(SubSeq(gs, c[i] + 1, c[i + 1]))]

\* the batches: at most MaxDocs record groups in at most MaxFiles files
Batches ==
  UNION {{Batch(gs, c) : c \in Cuts(Len(gs))} : gs \in SeqsUpTo(GroupPool, MaxDocs)}

\* the record sequences of the segmenter runs
SegRecords == {DOCTR, DocHdr("VOID"), Tndr}
SegFiles == SeqsUpTo(SegRecords, MaxRecords)

\* the record groups of the single-document runs
OptRecords == <<Ttl, Taxi, Tndr, RcpDt, EcrDescr>>
OptTags == {Head(OptRecords[i]) : i \in 1..Len(OptRecords)}
HdrParts == {<< >>, <<DocHdr("SALES")>>, <<DocHdr("REFUND")>>, <<DocHdr("VOID")>>,
             <<DocHdrShort("SALES")>>}
RcpParts == {<< >>, <<RcpId(Str("SALESMAN7"), << >>)>>,
             <<RcpId(Str("SALESMAN7"), Str("RCP42"))>>}

OptPart(S) == LET In(r) == Head(r) \in S IN SelectSeq(OptRecords, In)

HeaderGroups ==
  {h \o r \o OptPart(S)
     \o <<Si(Str("1"), Str("1"), Str("ITEM9"), N1, Str("N"), Str("N")),
          Adji(Str("1"), N2_50, N2_50), DOCTR>> :
     h \in HdrParts, r \in RcpParts, S \in SUBSET OptTags}

Flags == {Str("N"), Str("V")}
Quantities == {N1, N0, NMinus1, N2_5}
SignItems == {Si(Str("1"), Str("1"), Str("ITEM9"), q, f14, f15) :
                q \in Quantities, f14 \in Flags, f15 \in Flags}
SignGroups ==
  {<<DocHdr(ty), RcpId(Str("SALESMAN7"), Str("RCP42"))>> \o items \o <<DOCTR>> :
     ty \in {"SALES", "REFUND"}, items \in SeqsUpTo(SignItems, MaxItems)}

Orders == {Str("1"), Str("2")}
SaleItems == {Si(f2, o, Str("ITEM9"), N1, Str("N"), Str("N")) :
                f2 \in Orders, o \in Orders}
SaleAdjs == {Adji(o, f4, f5) : o \in Orders, f4 \in {N2_50, N1_00},
                               f5 \in {N2_50, N1_00}}
SaleGroups ==
  {<<DocHdr("SALES"), RcpId(Str("SALESMAN7"), Str("RCP42")), it>> \o adjs
     \o <<DOCTR>> : it \in SaleItems, adjs \in SeqsUpTo(SaleAdjs, MaxAdj)}

\* the record group of the spec's example, field for field
ExampleGroup ==
  <<Rec("DOCHDR", <<Str("SALES")>>),
    Rec("RCPID", <<Str("SALESMAN7"), Str("RCP42")>>),
    Rec("TTL", << <<"1", "2", "3", ".", "4", "5">> >>),
    Rec("SI", <<Str("1"), Str("ITEM9"), Str("Widget"), <<"1", "0", ".", "0", "0">>,
                <<"1", "0", ".", "0", "0">>, N1, Str("pcs"), Str("A"),
                << >>, << >>, << >>, << >>, Str("N")>>),
    Rec("ADJI", <<Str("1"), Str("x"), N2_50>>),
    DOCTR>>

\* the same receipt with every field where the code reads it
ExampleAsRead ==
  <<DocHdr("SALES"), RcpId(Str("SALESMAN7"), Str("RCP42")), Ttl,
    Si(Str("1"), Str("1"), Str("ITEM9"), N1, Str("N"), Str("N")),
    Adji(Str("1"), N2_50, N2_50), DOCTR>>

\* groups with a record too short, or not a number, where the code reads it
BrokenGroups ==
  {<<DocHdr("SALES"), Rec("ADJI", <<Str("1"), Str("x"), Str("y"), Str("z")>>), DOCTR>>,
   <<DocHdr("SALES"), Rec("SI", <<Str("1"), Str("1"), Str("ITEM9")>>), DOCTR>>,
   <<DocHdr("SALES"), Rec("TAXI", <<Str("A"), Str("21")>>), DOCTR>>}

DocGroups == HeaderGroups \cup SignGroups \cup SaleGroups \cup BrokenGroups
               \cup {ExampleGroup, ExampleAsRead}

----------------------------------------------------------------------------
(* The specifications                                                      *)

\* a run of main over a batch of files
Init == \E fs \in Batches : Start(fs)
Spec == Init /\ [][Next]_vars

\* a run of main over one file holding one record group
InitDoc == \E g \in DocGroups : Start(<<g>>)
SpecDoc == InitDoc /\ [][Next]_vars

\* CollectGroup with the reset of line 36 left out
CollectGroupNoReset ==
  /\ pc = "read"
  /\ rpos < Len(files[fidx])
  /\ Head(NextLine) = Tag("DOCTR")
  /\ emitted' = Append(emitted, Append(bill_lines, NextLine))
  /\ bill_lines' = Append(bill_lines, NextLine)
  /\ rpos' = rpos + 1
  /\ UNCHANGED <<files, fidx, doc, csv1, csv2, processed, failed, log, pc>>

\* lines 31-36 with a consumer that only takes what parse_csv yields, as
\* list(parse_csv(filename)) does
CollectGroup ==
  /\ pc = "read"
  /\ rpos < Len(files[fidx])
  /\ Head(NextLine) = Tag("DOCTR")
  /\ emitted' = Append(emitted, Append(bill_lines, NextLine))
  /\ bill_lines' = << >>
  /\ rpos' = rpos + 1
  /\ UNCHANGED <<files, fidx, doc, csv1, csv2, processed, failed, log, pc>>

NextSeg ==
  \/ NextFile
  \/ ReadLine
  \/ CollectGroup
  \/ EndOfFile
  \/ Finish

InitSeg == \E f \in SegFiles : Start(<<f>>)
SpecSeg == InitSeg /\ [][NextSeg]_vars

----------------------------------------------------------------------------
(* Notions the claims are stated in                                        *)

StartsWith(s, p) == Len(s) >= Len(p) /\ SubSeq(s, 1, Len(p)) = p
EndsWith(s, p) == Len(s) >= Len(p) /\ SubSeq(s, Len(s) - Len(p) + 1, Len(s)) = p

IsDoctr(rec) == Head(rec) = Tag("DOCTR")

\* the last DOCTR record of f (0 when it has none)
LastDoctr(f) ==
  IF \E i \in 1..Len(f) : IsDoctr(f[i])
  THEN CHOOSE i \in 1..Len(f) :
         IsDoctr(f[i]) /\ \A j \in (i + 1)..Len(f) : ~IsDoctr(f[j])
  ELSE 0

\* the first DOCTR record of a file that has one
FirstDoctr(f) ==
  CHOOSE i \in 1..Len(f) : IsDoctr(f[i]) /\ \A j \in 1..(i - 1) : ~IsDoctr(f[j])

RECURSIVE GroupsOf(_)
\* the record groups of a file: each DOCTR record closes one
GroupsOf(f) ==
  IF LastDoctr(f) = 0 THEN << >>
  ELSE <<SubSeq(f, 1, FirstDoctr(f))>> \o GroupsOf(SubSeq(f, FirstDoctr(f) + 1, Len(f)))

\* processing the group raises (in process_doc or in append_doc_to_csv)
Raises(g) == Body(g).err # ""

RECURSIVE Handled(_)
\* the groups of gs that the loop body is run on: those up to and with the
\* first one that raises
Handled(gs) ==
  IF gs = << >> THEN << >>
  ELSE IF Raises(Head(gs)) THEN <<Head(gs)>>
  ELSE <<Head(gs)>> \o Handled(Tail(gs))

FileRaises(f) == \E i \in 1..Len(GroupsOf(f)) : Raises(GroupsOf(f)[i])

RECURSIVE HandledUpTo(_)
\* the groups the loop body was run on in files 1..n
HandledUpTo(n) ==
  IF n = 0 THEN << >> ELSE HandledUpTo(n - 1) \o Handled(GroupsOf(files[n]))

\* the groups the loop body has been run on so far
HandledSoFar == IF fidx = 0 THEN << >> ELSE HandledUpTo(fidx - 1) \o emitted

RECURSIVE Completed(_)
\* how many of the groups gs the loop body completed without an exception
Completed(gs) ==
  IF gs = << >> THEN 0
  ELSE (IF Raises(Head(gs)) THEN 0 ELSE 1) + Completed(Tail(gs))

\* the SI records of a group, in order
SiRecords(g) == LET IsSi(rec) == Head(rec) = Tag("SI") IN SelectSeq(g, IsSi)
AdjiRecords(g) == LET IsAdji(rec) == Head(rec) = Tag("ADJI") IN SelectSeq(g, IsAdji)

RECURSIVE SummaryRows(_)
\* the summary rows the loop body writes for the groups gs
SummaryRows(gs) ==
  IF gs = << >> THEN << >> ELSE Body(Head(gs)).rows1 \o SummaryRows(Tail(gs))

RECURSIVE DetailRowsDue(_)
\* how many detail rows the receipts of gs that got a summary row have
DetailRowsDue(gs) ==
  IF gs = << >> THEN 0
  ELSE (IF Body(Head(gs)).rows1 # << >> THEN Len(SiRecords(Head(gs))) ELSE 0)
         + DetailRowsDue(Tail(gs))

IsStarted(entry) ==
  entry.level = "INFO" /\ Head(entry.msg) = "started processing file: "

RECURSIVE RaisingUpTo(_)
\* the files among 1..n whose processing raises, in order
RaisingUpTo(n) ==
  IF n = 0 THEN << >>
  ELSE RaisingUpTo(n - 1) \o (IF FileRaises(files[n]) THEN <<n>> ELSE << >>)

\* s, written with a decimal comma, denotes a number below zero
IsNegative(s) ==
  IsFloat(Replace(s, ",", ".")) /\ FloatCents(Replace(s, ",", ".")) < 0
IsPositive(s) ==
  IsFloat(Replace(s, ",", ".")) /\ FloatCents(Replace(s, ",", ".")) > 0

\* in a single-document run: the loop body has been run on the document
DocHandled == fidx = 1 /\ emitted # << >>
TheGroup == emitted[1]
DocBuilt == DocHandled /\ doc.t = "bill"
TheItems == doc.items.v[1].v
LastLog == log[Len(log)]

Included(d) ==
  /\ d.type \in {PyStr(<<"SALES">>), PyStr(<<"REFUND">>)}
  /\ d.id # PyStr(<< >>)

----------------------------------------------------------------------------
(* The claims                                                              *)

C4_FailedFiles ==
  /\ \A k \in 1..(Len(emitted) - 1) : ~Raises(emitted[k])
  /\ pc = "read" => failed = RaisingUpTo(fidx - 1)
  /\ pc \in {"next", "done"} =>
        /\ failed = RaisingUpTo(fidx)
        /\ fidx >= 1 => emitted = Handled(GroupsOf(files[fidx]))
  /\ pc = "done" =>
        /\ fidx = Len(files)
        /\ csv1 = SummaryRows(HandledUpTo(Len(files)))
        /\ SelectSeq(log, IsStarted)
             = [i \in 1..Len(files) |->
                  Info(<<"started processing file: ", ToString(i)>>)]

\* the first of two files failed at its first group, its second group was
\* not processed, and the second file was processed
C4_Witness ==
  /\ pc = "done"
  /\ Len(files) = 2
  /\ failed = <<1>>
  /\ Len(GroupsOf(files[1])) = 2
  /\ Raises(GroupsOf(files[1])[1])
  /\ processed = 1

\* C5 (as claimed): in the state in which an interrupted run stops, every
\* summary row is accompanied by all the detail rows of its receipt.
C5_Original ==
  pc = "interrupted" => Len(csv2) = DetailRowsDue(HandledSoFar)

\* C5, its first half: the step that interrupts the run adds no file to
\* failed, counts no document, and nothing follows it.
C5_NotAbsorbed ==
  [][/\ pc' = "interrupted" => failed' = failed /\ processed' = processed
     /\ pc # "interrupted"]_vars

\* C9 (as claimed): the count of processed documents is the number of
\* summary rows written.
C9_Original ==
  pc # "interrupted" => processed = Len(csv1)

\* C9 (amended): the count of processed documents is the number of record
\* groups the loop body completed without an exception, the skipped
\* documents among them.
C9_Amended ==
  pc # "interrupted" => processed = Completed(HandledSoFar)

\* a run ended with two skipped documents counted and one summary row
C9_Witness ==
  /\ pc = "done"
  /\ processed = 2
  /\ Len(csv1) = 1

\* C1 (as claimed): for every included receipt (type SALES or REFUND, id
\* not the empty string) that process_doc built, append_doc_to_csv appends
\* exactly one summary row and one detail row per SI record of the group,
\* each detail row carrying the receipt's id, and raises nothing.
C1_Original ==
  (DocBuilt /\ pc # "interrupted" /\ Included(doc)) =>
    /\ Len(csv1) = 1
    /\ Len(csv2) = Len(SiRecords(TheGroup))
    /\ \A k \in 1..Len(csv2) : StartsWith(csv2[k], Fmt(doc.id) \o <<";">>)
    /\ failed = << >>

\* the fields of a bill that come from the record with the given tag
FieldsOf(d, tag) ==
  CASE tag = Tag("RCPID") -> {d.id, d.salesman}
    [] tag = Tag("TTL") -> {d.total_price}
    [] tag = Tag("TAXI") -> {d.price_without_vat, d.vat_amount}
    [] tag = Tag("TNDR") -> {d.payment_type}
    [] tag = Tag("RCPDT") -> {d.date}
    [] tag = Tag("ECRDESCR") -> {d.cash_id, d.vat_id}

OptionalTags == {Tag("RCPID"), Tag("TTL"), Tag("TAXI"), Tag("TNDR"), Tag("RCPDT"),
                 Tag("ECRDESCR")}

\* process_doc raised on the document, and what
DocFailedWith(kind) ==
  /\ doc.t = "unbound"
  /\ failed = <<1>>
  /\ LastLog = Exc(kind)

Readable(g) ==
  \A i \in 1..Len(g) :
    /\ Head(g[i]) = Tag("DOCHDR") => Len(g[i]) >= 3
    /\ Head(g[i]) = Tag("RCPID") => Len(g[i]) >= 3
    /\ Head(g[i]) = Tag("TTL") => Len(g[i]) >= 2
    /\ Head(g[i]) = Tag("TAXI") => Len(g[i]) >= 6
    /\ Head(g[i]) = Tag("TNDR") => Len(g[i]) >= 2
    /\ Head(g[i]) = Tag("RCPDT") => Len(g[i]) >= 2
    /\ Head(g[i]) = Tag("ECRDESCR") => Len(g[i]) >= 3
    /\ Head(g[i]) = Tag("ADJI") => Len(g[i]) >= 5 /\ IsFloat(g[i][5])
    /\ Head(g[i]) = Tag("SI") => Len(g[i]) >= 15

Skipped ==
  /\ csv1 = << >>
  /\ csv2 = << >>
  /\ failed = << >>
  /\ processed = 1
  /\ LastLog.level = "INFO"

\* C6: a receipt of a type other than SALES and REFUND adds no row and
\* raises nothing; so does a SALES or REFUND receipt whose id is the empty
\* string; a SALES or REFUND receipt whose id is null passes the filter:
\* its summary row, with the id rendered as None, is written.
C6_InclusionFilter ==
  (DocBuilt /\ pc # "interrupted") =>
    /\ doc.type \notin {PyStr(<<"SALES">>), PyStr(<<"REFUND">>)} => Skipped
    /\ (doc.type \in {PyStr(<<"SALES">>), PyStr(<<"REFUND">>)}
          /\ doc.id = PyStr(<< >>)) => Skipped
    /\ (doc.type \in {PyStr(<<"SALES">>), PyStr(<<"REFUND">>)}
          /\ doc.id = PyNone) =>
          /\ Len(csv1) = 1
          /\ StartsWith(csv1[1], <<"None", ";">>)

\* a REFUND receipt without RCPID got its summary row
C6_Witness ==
  /\ DocBuilt
  /\ pc = "done"
  /\ doc.type = PyStr(<<"REFUND">>)
  /\ doc.id = PyNone
  /\ Len(csv1) = 1

Matching(g, rec, opos, kpos) ==
  {i \in 1..Len(AdjiRecords(g)) : AdjiRecords(g)[i][kpos] = rec[opos]}

C10_Original ==
  (files = <<ExampleGroup>> /\ pc = "done") =>
    /\ failed = << >>
    /\ doc.t = "bill"
    /\ doc.type = PyStr(<<"SALES">>)
    /\ Len(csv1) = 1
    /\ StartsWith(csv1[1], <<"RCP42", ";">>)
    /\ doc.salesman = PyStr(<<"SALESMAN7">>)
    /\ EndsWith(csv1[1], <<";", "1", "2", "3", ",", "4", "5", "\n">>)
    /\ csv2 = << <<"RCP42", ";", "ITEM9", ";", "1", ";", "1", "0", ",", "0", "0",
                   ";", "-", "2", ",", "5", "0", "\n">> >>

\* C10, with every field of the example where the code reads it: the
\* receipt is built and its summary row written as claimed, and the detail
\* row as well.
C10_AsRead ==
  (files = <<ExampleAsRead>> /\ pc = "done") =>
    /\ failed = << >>
    /\ doc.t = "bill"
    /\ doc.type = PyStr(<<"SALES">>)
    /\ Len(csv1) = 1
    /\ StartsWith(csv1[1], <<"RCP42", ";">>)
    /\ doc.salesman = PyStr(<<"SALESMAN7">>)
    /\ EndsWith(csv1[1], <<";", "1", "2", "3", ",", "4", "5", "\n">>)
    /\ csv2 = << <<"RCP42", ";", "ITEM9", ";", "1", ";", "1", "0", ",", "0", "0",
                   ";", "-", "2", ",", "5", "0", "\n">> >>

====
